---- MODULE Spec2Model ----
(***************************************************************************)
(* The PostgreSQL/pgvector memory store of A-mem (pg_memory_system.py):    *)
(* the vector_store table, the id sequence behind its SERIAL column, and   *)
(* the five public operations of PGMemorySystem as they are executed by    *)
(* several callers that share one database.  Every SQL statement is one    *)
(* atomic step; update_memory is two steps, because it reads the row in    *)
(* one connection (get_memory) and writes it back in another.  Further     *)
(* parts: the calls that raise and the connections they leave open, the    *)
(* constructor of PGMemorySystem, and process_query of MemoryClient.       *)
(***************************************************************************)
EXTENDS Integers, Sequences, FiniteSets, TLC

\* Cap of the id sequence: add_memory is disabled once MaxId rows were inserted.
MaxId == 2

\* The rows inserted where calls run one at a time with every argument varied.
MaxSeqId == 1

\* The connections the database server accepts at one time (max_connections).
MaxConns == 2

\* The requests to the language model within one process_query.
MaxRounds == 2

\* The callers that share the store (tool handlers, scripts).
Callers == {"c1", "c2"}

\* Python's None for an optional argument; a supplied value v is Some(v).
None == {}
Some(v) == {v}
Val(o) == CHOOSE v \in o : TRUE

\* Argument values the callers draw from.
Contents == {"a", "b"}
TagLists == {<<>>, <<"x">>}
Categories == {"", "Sports"}
Queries == {"a", "q"}
Ids == 1..(MaxId + 1)
Ks == 1..(MaxId + 1)

OptContents == {None} \cup {Some(c) : c \in Contents \cup {""}}
OptTags == {None} \cup {Some(t) : t \in TagLists}
OptCategories == {None} \cup {Some(c) : c \in Categories}
OptTimestamps == {None}

\* The db_url argument of the constructor and DATABASE_URL of the environment.
OptUrls == {None, Some(""), Some("postgresql://db")}

VARIABLES
    table,      \* vector_store: id -> row, for the rows present
    nextId,     \* next value of the sequence behind the SERIAL column id
    pc,         \* per caller: "idle", or "update_write" inside update_memory
    local,      \* per caller: the local variables of update_memory
    ret,        \* the call that returned in the last step: [op, args, val]
    issued,     \* history: the ids add_memory returned, in order
    deleted,    \* history: the ids for which delete_memory returned True
    conns,      \* the connections to the database that are open
    ctor,       \* PGMemorySystem.__init__: its position, arguments and self.db_url
    ddl,        \* history: the statements _init_db has executed, in order
    cpc,        \* MemoryClient: "input" in chat_loop, or its place in process_query
    messages,   \* process_query: the conversation sent to the model
    todo,       \* process_query: the tool calls of `message` not yet handled
    final_text, \* process_query: the pieces of the reply collected
    result,     \* process_query: `result` of the last tool call
    requests,   \* process_query: the model requests made
    cret,       \* how the last process_query ended: [op, val]
    sessions,   \* MemoryClient.sessions: the server ids with a stored session
    entered,    \* the contexts entered by __aenter__ and not yet exited
    raising     \* main: the exception that is propagating, if any

storeVars == <<table, nextId, pc, local, ret, issued, deleted>>
ctorVars == <<ctor, ddl>>
mainVars == <<sessions, entered, raising>>
clientVars == <<cpc, messages, todo, final_text, result, requests, cret, mainVars>>
vars == <<table, nextId, pc, local, ret, issued, deleted, conns, ctor, ddl,
          cpc, messages, todo, final_text, result, requests, cret,
          sessions, entered, raising>>

\* Python truthiness of an optional string and of an optional list.
TruthyStr(o) == o # None /\ Val(o) # ""
TruthyList(o) == o # None /\ Len(Val(o)) > 0

\* Python's `x or d`.
OrStr(o, d) == IF TruthyStr(o) THEN Val(o) ELSE d
OrList(o, d) == IF TruthyList(o) THEN Val(o) ELSE d

\* SentenceTransformer.encode(text).tolist(): a fixed map from text to a vector;
\* the model normalises its output, so all vectors have the same length.
_get_embedding(text) ==
    CASE text = "a" -> <<4, 3>>
      [] text = "b" -> <<3, 4>>
      [] text = "q" -> <<0, 5>>
      [] OTHER -> <<5, 0>>

Dot(u, v) == u[1] * v[1] + u[2] * v[2]

\* pgvector's `<=>`: cosine distance 1 - u.v/(|u||v|), in units of 1/(|u||v|),
\* which is v.v for vectors of one length.
CosineDistance(u, v) == Dot(v, v) - Dot(u, v)

\* datetime.now(): the clock advances with every insertion.
Now == nextId

\* strftime('%Y%m%d%H%M') and strptime(.., '%Y%m%d%H%M'): a time as text, and back.
Strftime(t) == <<t>>
Strptime(s) == s[1]

\* psycopg2's Json(metadata) as stored in the JSONB column, and the dict a
\* SELECT gives back for it: a JSON object is its set of key/value members.
Json(m) == {<<k, m[k]>> : k \in DOMAIN m}
FromJsonb(j) == [k \in {kv[1] : kv \in j} |-> (CHOOSE kv \in j : kv[1] = k)[2]]

\* The locals of a caller that is not inside update_memory.
NoLocal == [memory_id |-> 0, content |-> None, tags |-> None, category |-> None,
            memory |-> None, embedding |-> None]

NoRet == [op |-> "none", args |-> <<>>, val |-> 0]

\* The statements of _init_db.
InitDbStatements == <<"CREATE EXTENSION", "CREATE TABLE", "CREATE INDEX">>

\* __init__ after it has returned: the module-level memory_system of the
\* server and the scripts, built with the DATABASE_URL of the environment.
Constructed ==
    [pc |-> "ready", db_url |-> Some("postgresql://db"), environ |-> Some("postgresql://db"),
     self_db_url |-> Some("postgresql://db"), error |-> None]

\* The empty table and the callers outside any call.
StoreInit ==
    /\ table = <<>>
    /\ nextId = 1
    /\ pc = [p \in Callers |-> "idle"]
    /\ local = [p \in Callers |-> NoLocal]
    /\ ret = NoRet
    /\ issued = <<>>
    /\ deleted = {}

\* `result` before any tool call of a process_query.
NoResult == [type |-> "unbound", tool_call_id |-> "", content |-> ""]

\* The contexts initialize_session enters, in the order it enters them.
Contexts == <<"streams_context", "session_context">>

\* The client in chat_loop, waiting for a question: initialize_session has
\* returned, with both contexts entered and the session stored.
ClientInit ==
    /\ cpc = "input"
    /\ messages = <<>>
    /\ todo = <<>>
    /\ final_text = <<>>
    /\ result = NoResult
    /\ requests = 0
    /\ cret = [op |-> "none", val |-> <<>>]
    /\ sessions = {"memory_server"}
    /\ entered = {Contexts[1], Contexts[2]}
    /\ raising = None

Init ==
    /\ StoreInit
    /\ conns = 0
    /\ ctor = Constructed
    /\ ddl = InitDbStatements
    /\ ClientInit

\* An id one above the largest id present, instead of the sequence's next value.
NextVal_reuse ==
    IF DOMAIN table = {} THEN 1
    ELSE 1 + (CHOOSE m \in DOMAIN table : \A i \in DOMAIN table : i <= m)

\* nextval of the sequence of the SERIAL column.
NextVal == nextId

\* INSERT INTO vector_store ... RETURNING id.
InsertRow(id, row) == (id :> row) @@ table

\* WHERE id >= %s instead of WHERE id = %s: the first row at or after the id.
Lookup_atleast(memory_id) ==
    IF \E i \in DOMAIN table : i >= memory_id
    THEN LET f == CHOOSE i \in DOMAIN table :
                     i >= memory_id /\ \A j \in DOMAIN table : j >= memory_id => i <= j
         IN Some([id |-> f, content |-> table[f].text,
                  metadata |-> FromJsonb(table[f].metadata)])
    ELSE None

\* SELECT id, text, metadata FROM vector_store WHERE id = %s, and the dict
\* get_memory builds from the row, or None.
Lookup(memory_id) ==
    IF memory_id \in DOMAIN table
    THEN Some([id |-> memory_id,
               content |-> table[memory_id].text,
               metadata |-> FromJsonb(table[memory_id].metadata)])
    ELSE None

\* The metadata dict add_memory prepares.
AddMetadata(tags, category, timestamp) ==
    [tags |-> OrList(tags, <<>>),
     category |-> OrStr(category, "Uncategorized"),
     timestamp |-> IF timestamp # None THEN Val(timestamp) ELSE Strftime(Now)]

\* The parameters of the INSERT statement.
AddRow(content, metadata) ==
    [timestamp |-> Strptime(metadata.timestamp),
     text |-> content,
     embedding |-> Some(_get_embedding(content)),
     model |-> "all-MiniLM-L6-v2",
     metadata |-> Json(metadata)]

add_memory(p, content, tags, category, timestamp) ==
    /\ pc[p] = "idle"
    /\ nextId <= MaxId
    /\ table' = InsertRow(NextVal, AddRow(content, AddMetadata(tags, category, timestamp)))
    /\ nextId' = nextId + 1
    /\ ret' = [op |-> "add_memory",
               args |-> [content |-> content, tags |-> tags, category |-> category],
               val |-> NextVal]
    /\ issued' = Append(issued, NextVal)
    /\ UNCHANGED <<pc, local, deleted>>

get_memory(p, memory_id) ==
    /\ pc[p] = "idle"
    /\ ret' = [op |-> "get_memory", args |-> [memory_id |-> memory_id],
               val |-> Lookup(memory_id)]
    /\ UNCHANGED <<table, nextId, pc, local, issued, deleted>>

\* A DELETE that matches the row and leaves it in the table.
DeleteRows_keep(memory_id) == table

\* DELETE FROM vector_store WHERE id = %s, and cur.rowcount after it.
DeleteRows(memory_id) == [i \in DOMAIN table \ {memory_id} |-> table[i]]
\* A rowcount that does not tell a deleted row from none.
DeleteRowcount_always(memory_id) == 1

DeleteRowcount(memory_id) == Cardinality(DOMAIN table \cap {memory_id})

delete_memory(p, memory_id) ==
    /\ pc[p] = "idle"
    /\ table' = DeleteRows(memory_id)
    /\ ret' = [op |-> "delete_memory", args |-> [memory_id |-> memory_id],
               val |-> DeleteRowcount(memory_id) > 0]
    /\ deleted' = IF DeleteRowcount(memory_id) > 0
                  THEN deleted \cup {memory_id} ELSE deleted
    /\ UNCHANGED <<nextId, pc, local, issued>>

\* The timestamp of the metadata set to the time of the update.
UpdateLocals_touch(memory_id, memory, content, tags, category) ==
    [memory_id |-> memory_id, content |-> content, tags |-> tags,
     category |-> category,
     memory |-> Some(
        [memory EXCEPT
            !.content = IF TruthyStr(content) THEN Val(content) ELSE @,
            !.metadata.tags = IF TruthyList(tags) THEN Val(tags) ELSE @,
            !.metadata.category = IF TruthyStr(category) THEN Val(category) ELSE @,
            !.metadata.timestamp = Strftime(Now)]),
     embedding |-> IF TruthyStr(content) THEN Some(_get_embedding(Val(content)))
                   ELSE None]

\* `if tags is not None:` and `if category is not None:` instead of the
\* truthiness tests: whatever is supplied is stored.
UpdateLocals_supplied(memory_id, memory, content, tags, category) ==
    [memory_id |-> memory_id, content |-> content, tags |-> tags,
     category |-> category,
     memory |-> Some(
        [memory EXCEPT
            !.content = IF TruthyStr(content) THEN Val(content) ELSE @,
            !.metadata.tags = IF tags # None THEN Val(tags) ELSE @,
            !.metadata.category = IF category # None THEN Val(category) ELSE @]),
     embedding |-> IF TruthyStr(content) THEN Some(_get_embedding(Val(content)))
                   ELSE None]

\* The metadata rebuilt with add_memory's defaults instead of kept.
UpdateLocals_reset(memory_id, memory, content, tags, category) ==
    [memory_id |-> memory_id, content |-> content, tags |-> tags,
     category |-> category,
     memory |-> Some(
        [memory EXCEPT
            !.content = IF TruthyStr(content) THEN Val(content) ELSE @,
            !.metadata.tags = OrList(tags, <<>>),
            !.metadata.category = OrStr(category, "Uncategorized")]),
     embedding |-> IF TruthyStr(content) THEN Some(_get_embedding(Val(content)))
                   ELSE None]

\* What update_memory returns for an id get_memory does not find.
NotFoundResult_true == TRUE
NotFoundResult == FALSE

\* update_memory after its early return: the fields applied to the dict that
\* get_memory returned, and the embedding of a new content.
UpdateLocals(memory_id, memory, content, tags, category) ==
    [memory_id |-> memory_id, content |-> content, tags |-> tags,
     category |-> category,
     memory |-> Some(
        [memory EXCEPT
            !.content = IF TruthyStr(content) THEN Val(content) ELSE @,
            !.metadata.tags = IF TruthyList(tags) THEN Val(tags) ELSE @,
            !.metadata.category = IF TruthyStr(category) THEN Val(category) ELSE @]),
     embedding |-> IF TruthyStr(content) THEN Some(_get_embedding(Val(content)))
                   ELSE None]

\* SET text = %s, metadata = %s: the embedding of the new text is not written.
UpdateContent_text(memory_id, text, embedding, metadata) ==
    [i \in DOMAIN table |->
        IF i = memory_id
        THEN [table[i] EXCEPT !.text = text, !.metadata = metadata]
        ELSE table[i]]

\* UPDATE vector_store SET text = %s, embedding = %s, metadata = %s WHERE id = %s.
UpdateContent(memory_id, text, embedding, metadata) ==
    [i \in DOMAIN table |->
        IF i = memory_id
        THEN [table[i] EXCEPT !.text = text, !.embedding = embedding,
                              !.metadata = metadata]
        ELSE table[i]]

\* UPDATE vector_store SET metadata = %s WHERE id = %s.
UpdateMetadata(memory_id, metadata) ==
    [i \in DOMAIN table |->
        IF i = memory_id THEN [table[i] EXCEPT !.metadata = metadata]
        ELSE table[i]]

\* INSERT ... ON CONFLICT (id) DO UPDATE instead of UPDATE: the row is written
\* whether or not it is still there.
UpdateStatement_upsert(l) ==
    (l.memory_id :>
        [timestamp |-> Strptime(Val(l.memory).metadata.timestamp),
         text |-> Val(l.memory).content,
         embedding |-> Some(_get_embedding(Val(l.memory).content)),
         model |-> "all-MiniLM-L6-v2",
         metadata |-> Json(Val(l.memory).metadata)]) @@ table

\* The UPDATE statement update_memory executes with its locals l.
UpdateStatement(l) ==
    IF TruthyList(l.embedding)
    THEN UpdateContent(l.memory_id, Val(l.memory).content, l.embedding,
                       Json(Val(l.memory).metadata))
    ELSE UpdateMetadata(l.memory_id, Json(Val(l.memory).metadata))

UpdateArgs(l) ==
    [memory_id |-> l.memory_id, content |-> l.content, tags |-> l.tags,
     category |-> l.category]

\* update_memory up to its UPDATE statement: get_memory in a connection of
\* its own, the early return, and the fields applied to the dict.
update_memory_read(p, memory_id, content, tags, category) ==
    /\ pc[p] = "idle"
    /\ LET memory == Lookup(memory_id)
       IN IF memory = None
          THEN /\ ret' = [op |-> "update_memory",
                          args |-> [memory_id |-> memory_id, content |-> content,
                                    tags |-> tags, category |-> category],
                          val |-> NotFoundResult]
               /\ UNCHANGED <<pc, local>>
          ELSE /\ pc' = [pc EXCEPT ![p] = "update_write"]
               /\ local' = [local EXCEPT ![p] =
                     UpdateLocals(memory_id, Val(memory), content, tags, category)]
               /\ ret' = NoRet
    /\ UNCHANGED <<table, nextId, issued, deleted>>

\* The UPDATE statement of update_memory, in a second connection, and return True.
update_memory_write(p) ==
    /\ pc[p] = "update_write"
    /\ table' = UpdateStatement(local[p])
    /\ ret' = [op |-> "update_memory", args |-> UpdateArgs(local[p]), val |-> TRUE]
    /\ pc' = [pc EXCEPT ![p] = "idle"]
    /\ local' = [local EXCEPT ![p] = NoLocal]
    /\ UNCHANGED <<nextId, issued, deleted>>

\* update_memory run without another caller's statement between its two.
update_memory(p, memory_id, content, tags, category) ==
    /\ pc[p] = "idle"
    /\ LET memory == Lookup(memory_id)
           l == UpdateLocals(memory_id, Val(memory), content, tags, category)
       IN IF memory = None
          THEN /\ ret' = [op |-> "update_memory",
                          args |-> [memory_id |-> memory_id, content |-> content,
                                    tags |-> tags, category |-> category],
                          val |-> NotFoundResult]
               /\ UNCHANGED table
          ELSE /\ table' = UpdateStatement(l)
               /\ ret' = [op |-> "update_memory", args |-> UpdateArgs(l), val |-> TRUE]
    /\ UNCHANGED <<nextId, pc, local, issued, deleted>>

\* The lists of the ivfflat index vector_store_embedding_idx: _init_db creates
\* the index on the empty table, so its centres are fixed before any row
\* exists; a row is filed in the list of the centre nearest to its embedding.
Centres == << <<5, 0>>, <<0, 5>> >>
ListOf(e) ==
    CHOOSE c \in DOMAIN Centres :
        \A d \in DOMAIN Centres :
            \/ CosineDistance(Centres[c], e) < CosineDistance(Centres[d], e)
            \/ CosineDistance(Centres[c], e) = CosineDistance(Centres[d], e) /\ c <= d

\* How the engine may execute the ranking query: a scan of the whole table, or
\* a scan of the index, which visits only the list nearest to the query.
Plans == {"seqscan", "ivfflat"}
Scanned(plan, qe) ==
    IF plan = "seqscan" THEN DOMAIN table
    ELSE {i \in DOMAIN table :
            table[i].embedding # None /\ ListOf(Val(table[i].embedding)) = ListOf(qe)}

\* embedding <=> %s::vector of row i; a NULL embedding sorts last.
Distance(i, qe) ==
    IF table[i].embedding = None THEN <<1, 0>>
    ELSE <<0, CosineDistance(Val(table[i].embedding), qe)>>
DistanceLeq(x, y) == x[1] < y[1] \/ (x[1] = y[1] /\ x[2] <= y[2])

\* ORDER BY embedding <=> %s::vector: every order of the scanned rows by
\* distance; rows at one distance come in any order.
OrderBy(S, qe) ==
    {s \in [1..Cardinality(S) -> S] :
        /\ \A i, j \in DOMAIN s : i # j => s[i] # s[j]
        /\ \A i, j \in DOMAIN s : i < j => DistanceLeq(Distance(s[i], qe), Distance(s[j], qe))}

\* LIMIT %s.
Limit(s, k) == SubSeq(s, 1, IF k < Len(s) THEN k ELSE Len(s))

\* 1 - (embedding <=> %s::vector), in the unit of CosineDistance.
Similarity(i, qe) ==
    IF table[i].embedding = None THEN None
    ELSE Some(Dot(qe, qe) - CosineDistance(Val(table[i].embedding), qe))

\* The dicts search_memories builds from the rows fetched.
SearchResults(s, qe) ==
    [n \in DOMAIN s |->
        [id |-> s[n],
         content |-> table[s[n]].text,
         metadata |-> FromJsonb(table[s[n]].metadata),
         similarity |-> Similarity(s[n], qe)]]

search_memories(p, query, k) ==
    /\ pc[p] = "idle"
    /\ LET query_embedding == _get_embedding(query)
       IN \E plan \in Plans :
            \E s \in OrderBy(Scanned(plan, query_embedding), query_embedding) :
                ret' = [op |-> "search_memories", args |-> [query |-> query, k |-> k],
                        val |-> SearchResults(Limit(s, k), query_embedding)]
    /\ UNCHANGED <<table, nextId, pc, local, issued, deleted>>

\* The table a transaction leaves, however its `with` block ends.
ExitWith_commit(before, after, raised) == after

\* `with psycopg2.connect(...) as conn:` at its exit: the transaction is
\* committed if the block ended normally and rolled back if it raised.
ExitWith(before, after, raised) == IF raised THEN before ELSE after

\* Where a failing add_memory raises: in _get_embedding, in connect, in the
\* INSERT statement, or after the INSERT was executed (fetchone, the commit).
AddStages == {"embedding", "connect", "execute", "fetchone"}

\* Where a failing update_memory raises: in get_memory, in _get_embedding, in
\* the connect of its own block, in the UPDATE statement, or in the commit
\* after the UPDATE was executed.
UpdateStages == {"get_memory", "embedding", "connect", "execute", "commit"}

Raised(call, stage, args) ==
    [op |-> "raised", args |-> [call |-> call, stage |-> stage, args |-> args],
     val |-> "Exception"]

\* add_memory raising at the given stage.  The sequence is outside the
\* transaction: a value taken by an INSERT that is rolled back is not reused.
add_memory_raises(p, content, tags, category, timestamp, stage) ==
    /\ pc[p] = "idle"
    /\ nextId <= MaxId
    /\ LET row == AddRow(content, AddMetadata(tags, category, timestamp))
       IN table' = IF stage \in {"embedding", "connect"} THEN table
                   ELSE ExitWith(table,
                                 IF stage = "fetchone" THEN InsertRow(NextVal, row)
                                 ELSE table,
                                 TRUE)
    /\ nextId' = IF stage = "fetchone" THEN nextId + 1 ELSE nextId
    /\ ret' = Raised("add_memory", stage,
                     [content |-> content, tags |-> tags, category |-> category])
    /\ UNCHANGED <<pc, local, issued, deleted>>

\* update_memory raising at the given stage, run without another caller's
\* statement between its two.
update_memory_raises(p, memory_id, content, tags, category, stage) ==
    /\ pc[p] = "idle"
    /\ stage # "get_memory" => Lookup(memory_id) # None
    /\ stage = "embedding" => TruthyStr(content)
    /\ table' = IF stage \in {"get_memory", "embedding", "connect"} THEN table
                ELSE ExitWith(table,
                              IF stage = "commit"
                              THEN UpdateStatement(
                                      UpdateLocals(memory_id, Val(Lookup(memory_id)),
                                                   content, tags, category))
                              ELSE table,
                              TRUE)
    /\ ret' = Raised("update_memory", stage,
                     [memory_id |-> memory_id, content |-> content, tags |-> tags,
                      category |-> category])
    /\ UNCHANGED <<nextId, pc, local, issued, deleted>>

\* The connections a call has opened by the stage at which it ends.
AddOpened(stage) == IF stage \in {"embedding", "connect"} THEN 0 ELSE 1
UpdateOpened(stage) ==
    IF stage \in {"get_memory", "embedding", "connect"} THEN 1 ELSE 2

\* The connections still open when a call that opened n of them returns or
\* raises.  Leaving `with psycopg2.connect(...) as conn:` ends the
\* transaction and does not close the connection; no method calls
\* conn.close().  A connection is closed when its object is finalized, which
\* may be as the call ends or later.
LeftOpen(n) == 0..n

\* The connections of a call: the server accepts them, and some stay open.
Connect(n) ==
    /\ conns + n <= MaxConns
    /\ \E k \in LeftOpen(n) : conns' = conns + k
    /\ UNCHANGED <<ctorVars, clientVars>>

\* The finalizer of a connection object that is no longer referenced.
collect ==
    /\ conns > 0
    /\ conns' = conns - 1
    /\ UNCHANGED <<storeVars, ctorVars, clientVars>>

\* What the calls on the constructed store leave alone where connections are
\* not counted.
others == <<conns, ctorVars, clientVars>>

\* Several callers, whose statements interleave; their updates change content.
Next ==
    \E p \in Callers :
        \/ \E c \in Contents : add_memory(p, c, None, None, None) /\ UNCHANGED others
        \/ \E i \in Ids : get_memory(p, i) /\ UNCHANGED others
        \/ \E i \in Ids : delete_memory(p, i) /\ UNCHANGED others
        \/ \E i \in Ids, c \in OptContents :
              update_memory_read(p, i, c, None, None) /\ UNCHANGED others
        \/ update_memory_write(p) /\ UNCHANGED others
        \/ \E q \in Queries, k \in Ks : search_memories(p, q, k) /\ UNCHANGED others

Spec == Init /\ [][Next]_vars

\* One call at a time, each run to its return, with every argument varied.
SeqNext ==
    \E p \in {CHOOSE c \in Callers : TRUE} :
        \/ \E c \in Contents, t \in OptTags, g \in OptCategories, ts \in OptTimestamps :
              nextId <= MaxSeqId /\ add_memory(p, c, t, g, ts) /\ UNCHANGED others
        \/ \E i \in Ids : get_memory(p, i) /\ UNCHANGED others
        \/ \E i \in Ids : delete_memory(p, i) /\ UNCHANGED others
        \/ \E i \in Ids, c \in OptContents, t \in OptTags, g \in OptCategories :
              update_memory(p, i, c, t, g) /\ UNCHANGED others

SpecSeq == Init /\ [][SeqNext]_vars

\* __init__ before its first statement, for every db_url argument and every
\* DATABASE_URL of the environment; the database is the one of Init.
CtorInit ==
    /\ StoreInit
    /\ ClientInit
    /\ conns = 0
    /\ \E u \in OptUrls, e \in OptUrls :
          ctor = [pc |-> "embedding_model", db_url |-> u, environ |-> e,
                  self_db_url |-> None, error |-> None]
    /\ ddl = <<>>

\* self.embedding_model = SentenceTransformer(model_name): the model loads,
\* or the constructor raises.
init_embedding_model ==
    /\ ctor.pc = "embedding_model"
    /\ \E loaded \in BOOLEAN :
          ctor' = IF loaded THEN [ctor EXCEPT !.pc = "llm_controller"]
                  ELSE [ctor EXCEPT !.pc = "raised", !.error = Some("OSError")]
    /\ UNCHANGED <<storeVars, conns, ddl, clientVars>>

\* self.llm_controller = LLMController(...): it returns, or raises.
init_llm_controller ==
    /\ ctor.pc = "llm_controller"
    /\ \E built \in BOOLEAN :
          ctor' = IF built THEN [ctor EXCEPT !.pc = "db_url"]
                  ELSE [ctor EXCEPT !.pc = "raised", !.error = Some("Exception")]
    /\ UNCHANGED <<storeVars, conns, ddl, clientVars>>

\* db_url or os.getenv('DATABASE_URL').
DbUrl(db_url, environ) == IF TruthyStr(db_url) THEN db_url ELSE environ

\* A test that lets every value of self.db_url pass.
MissingUrl_never(db_url) == FALSE

\* `if not self.db_url`.
MissingUrl(db_url) == ~TruthyStr(db_url)

\* self.db_url = ..., and the ValueError if there is none.
init_db_url ==
    /\ ctor.pc = "db_url"
    /\ LET db_url == DbUrl(ctor.db_url, ctor.environ)
       IN ctor' = IF MissingUrl(db_url)
                  THEN [ctor EXCEPT !.self_db_url = db_url, !.pc = "raised",
                                    !.error = Some("ValueError")]
                  ELSE [ctor EXCEPT !.self_db_url = db_url, !.pc = "_init_db"]
    /\ UNCHANGED <<storeVars, conns, ddl, clientVars>>

\* _init_db: its connection and its three statements, of which the first n
\* are executed; a statement that fails makes the constructor raise.
_init_db ==
    /\ ctor.pc = "_init_db"
    /\ \E n \in 0..Len(InitDbStatements) :
          /\ ddl' = ddl \o SubSeq(InitDbStatements, 1, n)
          /\ ctor' = IF n = Len(InitDbStatements) THEN [ctor EXCEPT !.pc = "ready"]
                     ELSE [ctor EXCEPT !.pc = "raised",
                                       !.error = Some("psycopg2.Error")]
    /\ \E k \in LeftOpen(1) : conns' = conns + k
    /\ UNCHANGED <<storeVars, clientVars>>

\* The constructor, and the calls on the instance once it exists.
CtorNext ==
    \/ init_embedding_model
    \/ init_llm_controller
    \/ init_db_url
    \/ _init_db
    \/ \E p \in {CHOOSE c \in Callers : TRUE} :
        \/ \E c \in Contents :
              /\ ctor.pc = "ready" /\ nextId <= MaxSeqId
              /\ add_memory(p, c, None, None, None) /\ UNCHANGED others
        \/ \E i \in Ids :
              ctor.pc = "ready" /\ get_memory(p, i) /\ UNCHANGED others
        \/ \E i \in Ids :
              ctor.pc = "ready" /\ delete_memory(p, i) /\ UNCHANGED others
        \/ \E i \in Ids, c \in OptContents :
              /\ ctor.pc = "ready"
              /\ update_memory(p, i, c, None, None) /\ UNCHANGED others
    \/ collect

SpecCtor == CtorInit /\ [][CtorNext]_vars

(***************************************************************************)
(* MemoryClient (memory_client.py): chat_loop and process_query.  The      *)
(* language model and the tool server are outside the client: what they    *)
(* answer is chosen freely.                                                *)
(***************************************************************************)

\* self.tool_mapping: the names session.list_tools() gave to initialize_session.
ToolMapping == {"add_memory", "search_memories"}

\* The tool calls a model message may carry: two of known tools, one of a
\* tool that is not in the mapping, one whose arguments are not JSON.
ToolCalls ==
    {[id |-> "call_1", name |-> "add_memory", arguments |-> "{}"],
     [id |-> "call_2", name |-> "search_memories", arguments |-> "{}"],
     [id |-> "call_3", name |-> "no_such_tool", arguments |-> "{}"],
     [id |-> "call_4", name |-> "add_memory", arguments |-> "{"]}

\* message.tool_calls: no call, one call, or two different calls.
ToolCallLists ==
    {<<>>} \cup {<<t>> : t \in ToolCalls}
           \cup {s \in {<<t, u>> : t \in ToolCalls, u \in ToolCalls} : s[1] # s[2]}

\* json.loads(tool_call.function.arguments): the arguments, or none if the
\* text is not JSON (json.JSONDecodeError).
JsonLoads(text) == IF text = "{}" THEN Some("{}") ELSE None

\* What session.call_tool returns.
CallToolResult(tool_call) ==
    [type |-> "CallToolResult", tool_call_id |-> tool_call.id, content |-> "content"]

\* result = {"content": ...} of the except branch: a dict.
ErrorResult(tool_call) ==
    [type |-> "dict", tool_call_id |-> tool_call.id, content |-> "error"]

\* result.content: the attribute of a CallToolResult; a dict has its keys as
\* items, not as attributes, so the lookup raises AttributeError.
Content(r) == IF r.type = "dict" THEN None ELSE Some(r.content)

\* The two messages process_query appends for a handled tool call.
ToolMessages(tool_call, content) ==
    << [role |-> "assistant", tool_call_id |-> tool_call.id, content |-> tool_call.name],
       [role |-> "tool", tool_call_id |-> tool_call.id, content |-> content] >>

\* process_query up to its first model request.
process_query_begin ==
    /\ cpc = "input"
    /\ cpc' = "request"
    /\ messages' = << [role |-> "user", tool_call_id |-> "", content |-> "query"] >>
    /\ final_text' = <<>>
    /\ todo' = <<>>
    /\ result' = NoResult
    /\ requests' = 0
    /\ cret' = [op |-> "none", val |-> <<>>]
    /\ UNCHANGED <<storeVars, conns, ctorVars, mainVars>>

\* process_query raising: chat_loop catches the exception and asks again.
Raise(exception) ==
    /\ cpc' = "input"
    /\ cret' = [op |-> "raised", val |-> exception]

\* self.client.chat.completions.create(...) raising.
create_raises ==
    /\ cpc = "request"
    /\ Raise("APIError")
    /\ UNCHANGED <<messages, todo, final_text, result, requests>>
    /\ UNCHANGED <<storeVars, conns, ctorVars, mainVars>>

\* A model request and its answer: a message with the given tool calls.  With
\* no tool call the while loop ends and process_query returns.
create(tool_calls) ==
    /\ cpc = "request"
    /\ requests < MaxRounds \/ tool_calls = <<>>
    /\ requests' = requests + 1
    /\ final_text' = Append(final_text, "message.content")
    /\ todo' = tool_calls
    /\ IF tool_calls = <<>>
       THEN /\ cpc' = "input"
            /\ cret' = [op |-> "returned", val |-> final_text']
       ELSE /\ cpc' = "tools"
            /\ cret' = cret
    /\ UNCHANGED <<messages, result>>
    /\ UNCHANGED <<storeVars, conns, ctorVars, mainVars>>

\* The place after a tool call: the next tool call, or the next model request.
AfterToolCall == IF Len(todo) > 1 THEN "tools" ELSE "request"

\* One pass of `for tool_call in message.tool_calls`; raises tells whether
\* session.call_tool raised.
tool_call_step(raises) ==
    /\ cpc = "tools"
    /\ todo # <<>>
    /\ LET tool_call == Head(todo)
           r == IF raises THEN ErrorResult(tool_call) ELSE CallToolResult(tool_call)
       IN IF tool_call.name \notin ToolMapping
          THEN /\ ~raises
               /\ final_text' = Append(final_text, "not found")
               /\ cpc' = AfterToolCall
               /\ todo' = Tail(todo)
               /\ UNCHANGED <<messages, result, cret>>
          ELSE IF JsonLoads(tool_call.arguments) = None
          THEN /\ ~raises
               /\ Raise("JSONDecodeError")
               /\ UNCHANGED <<messages, todo, final_text, result>>
          ELSE IF Content(r) = None
          THEN /\ result' = r
               /\ final_text' = Append(final_text, "call")
               /\ Raise("AttributeError")
               /\ UNCHANGED <<messages, todo>>
          ELSE /\ result' = r
               /\ final_text' = final_text \o <<"call", Val(Content(r))>>
               /\ messages' = messages \o ToolMessages(tool_call, Val(Content(r)))
               /\ cpc' = AfterToolCall
               /\ todo' = Tail(todo)
               /\ cret' = cret
    /\ UNCHANGED requests
    /\ UNCHANGED <<storeVars, conns, ctorVars, mainVars>>

ClientNext ==
    \/ process_query_begin
    \/ create_raises
    \/ \E tool_calls \in ToolCallLists : create(tool_calls)
    \/ \E raises \in BOOLEAN : tool_call_step(raises)

SpecClient == Init /\ [][ClientNext]_vars

(***************************************************************************)
(* main of memory_client.py: initialize_session and chat_loop inside try,  *)
(* cleanup in finally.                                                     *)
(***************************************************************************)

\* main after MemoryClient(...) was constructed, before the try statement.
MainInit ==
    /\ StoreInit
    /\ conns = 0
    /\ ctor = Constructed
    /\ ddl = InitDbStatements
    /\ cpc = "streams_context"
    /\ messages = <<>>
    /\ todo = <<>>
    /\ final_text = <<>>
    /\ result = NoResult
    /\ requests = 0
    /\ cret = [op |-> "none", val |-> <<>>]
    /\ sessions = {}
    /\ entered = {}
    /\ raising = None

\* An exception leaving the try block of main: the finally clause runs next.
Propagate(exception) ==
    /\ cpc' = "cleanup"
    /\ raising' = Some(exception)

\* What process_query keeps while main moves on.
QueryVars == <<messages, todo, final_text, result, requests, cret>>

\* streams = await streams_context.__aenter__().
enter_streams_context(ok) ==
    /\ cpc = "streams_context"
    /\ IF ok
       THEN /\ entered' = entered \cup {Contexts[1]}
            /\ cpc' = "session_context"
            /\ UNCHANGED raising
       ELSE /\ Propagate("ConnectError")
            /\ UNCHANGED entered
    /\ UNCHANGED <<storeVars, conns, ctorVars, QueryVars, sessions>>

\* session = await session_context.__aenter__().
enter_session_context(ok) ==
    /\ cpc = "session_context"
    /\ IF ok
       THEN /\ entered' = entered \cup {Contexts[2]}
            /\ cpc' = "initialize"
            /\ UNCHANGED raising
       ELSE /\ Propagate("Exception")
            /\ UNCHANGED entered
    /\ UNCHANGED <<storeVars, conns, ctorVars, QueryVars, sessions>>

\* self.sessions["memory_server"] = (...), reached only if
\* session.initialize() returned.
StoreSession(ok) == IF ok THEN sessions \cup {"memory_server"} ELSE sessions

\* await session.initialize(), then the session is stored.
session_initialize(ok) ==
    /\ cpc = "initialize"
    /\ sessions' = StoreSession(ok)
    /\ IF ok
       THEN cpc' = "list_tools" /\ UNCHANGED raising
       ELSE Propagate("McpError")
    /\ UNCHANGED <<storeVars, conns, ctorVars, QueryVars, entered>>

\* response = await session.list_tools() and the tool mapping; then
\* initialize_session returns and chat_loop starts.
list_tools(ok) ==
    /\ cpc = "list_tools"
    /\ IF ok
       THEN cpc' = "input" /\ UNCHANGED raising
       ELSE Propagate("McpError")
    /\ UNCHANGED <<storeVars, conns, ctorVars, QueryVars, sessions, entered>>

\* chat_loop: the user enters quit, and the loop ends.
quit ==
    /\ cpc = "input"
    /\ cpc' = "cleanup"
    /\ UNCHANGED <<storeVars, conns, ctorVars, QueryVars, mainVars>>

\* chat_loop: KeyboardInterrupt, which `except Exception` does not catch.
interrupt ==
    /\ cpc \in {"input", "request", "tools"}
    /\ Propagate("KeyboardInterrupt")
    /\ UNCHANGED <<storeVars, conns, ctorVars, QueryVars, sessions, entered>>

\* The contexts cleanup exits: for every stored session, session_context and
\* then streams_context; n is the number of __aexit__ calls that return
\* before one raises.
Exited(n) ==
    IF sessions = {} THEN {}
    ELSE {Contexts[Len(Contexts) + 1 - i] : i \in 1..n}

\* finally: await client.cleanup(); then main ends.
cleanup(n) ==
    /\ cpc = "cleanup"
    /\ entered' = entered \ Exited(n)
    /\ cpc' = "exited"
    /\ raising' = IF sessions # {} /\ n < Len(Contexts) THEN Some("Exception")
                  ELSE raising
    /\ UNCHANGED <<storeVars, conns, ctorVars, QueryVars, sessions>>

MainNext ==
    \/ \E ok \in BOOLEAN : enter_streams_context(ok)
    \/ \E ok \in BOOLEAN : enter_session_context(ok)
    \/ \E ok \in BOOLEAN : session_initialize(ok)
    \/ \E ok \in BOOLEAN : list_tools(ok)
    \/ process_query_begin
    \/ create_raises
    \/ \E tool_calls \in ToolCallLists : create(tool_calls)
    \/ \E raises \in BOOLEAN : tool_call_step(raises)
    \/ quit
    \/ interrupt
    \/ \E n \in 0..Len(Contexts) : cleanup(n)

SpecMain == MainInit /\ [][MainNext]_vars

\* One call at a time, each of which may fail, with the connections counted.
FailTags == {None, Some(<<"x">>)}

FailNext ==
    \/ \E p \in {CHOOSE c \in Callers : TRUE} :
        \/ \E c \in Contents :
              nextId <= MaxSeqId /\ add_memory(p, c, None, None, None) /\ Connect(1)
        \/ \E i \in Ids : get_memory(p, i) /\ Connect(1)
        \/ \E i \in Ids : delete_memory(p, i) /\ Connect(1)
        \/ \E q \in Queries, k \in Ks : search_memories(p, q, k) /\ Connect(1)
        \/ \E i \in Ids, c \in OptContents, t \in FailTags :
              /\ update_memory(p, i, c, t, None)
              /\ Connect(IF Lookup(i) = None THEN 1 ELSE 2)
        \/ \E c \in Contents, stage \in AddStages :
              /\ nextId <= MaxSeqId
              /\ add_memory_raises(p, c, None, None, None, stage)
              /\ Connect(AddOpened(stage))
        \/ \E i \in Ids, c \in OptContents, t \in FailTags, stage \in UpdateStages :
              /\ update_memory_raises(p, i, c, t, None, stage)
              /\ Connect(UpdateOpened(stage))
    \/ collect

SpecFail == Init /\ [][FailNext]_vars

\* Several callers whose updates of one record interleave, each update
\* supplying any of content, tags and category.
RaceContents == {None, Some("b")}
RaceTags == {None, Some(<<"x">>)}
RaceCategories == {None, Some("Sports")}

RaceIds == 1..MaxSeqId

RaceNext ==
    \E p \in Callers :
        \/ nextId <= MaxSeqId /\ add_memory(p, "a", None, None, None) /\ UNCHANGED others
        \/ \E i \in RaceIds : delete_memory(p, i) /\ UNCHANGED others
        \/ \E i \in RaceIds, c \in RaceContents, t \in RaceTags, g \in RaceCategories :
              update_memory_read(p, i, c, t, g) /\ UNCHANGED others
        \/ update_memory_write(p) /\ UNCHANGED others

SpecRace == Init /\ [][RaceNext]_vars

(***************************************************************************)
(* The properties checked.                                                 *)
(***************************************************************************)

\* The decoded metadata of a stored row, and helpers for the statements below.
Meta(row) == FromJsonb(row.metadata)
Present == DOMAIN table
Min(a, b) == IF a < b THEN a ELSE b

\* C1: get_memory(add_memory(content, tags, category)) returns the content,
\* tags and category that were passed, for every tags list and every category,
\* with [] and "Uncategorized" for the ones omitted.
C1_RoundTrip ==
    ret.op = "add_memory" =>
        LET r == Lookup(ret.val)
        IN /\ r # None
           /\ Val(r).content = ret.args.content
           /\ Val(r).metadata.tags =
                 (IF ret.args.tags = None THEN <<>> ELSE Val(ret.args.tags))
           /\ Val(r).metadata.category =
                 (IF ret.args.category = None THEN "Uncategorized"
                  ELSE Val(ret.args.category))

\* C2: the ids add_memory returned are pairwise distinct, whatever was updated
\* or deleted in between, and the id just returned is the last one issued.
C2_IdsDistinct ==
    /\ \A i, j \in DOMAIN issued : i # j => issued[i] # issued[j]
    /\ ret.op = "add_memory" => issued # <<>> /\ ret.val = issued[Len(issued)]

\* Witness of C2: a second id was returned after a record had been deleted.
C2_Witness ==
    /\ ret.op = "add_memory"
    /\ Len(issued) >= 2
    /\ deleted # {}

\* C3: with one call at a time, an update of an existing id that supplies
\* only non-empty tags changes only metadata.tags of that row; one that
\* supplies only non-empty content changes only text and embedding; one that
\* supplies both leaves the category as it was; no other row changes.
C3_PartialUpdate ==
    [][(ret'.op = "update_memory" /\ ret'.val = TRUE) =>
        LET a == ret'.args
            id == a.memory_id
        IN /\ id \in DOMAIN table /\ id \in DOMAIN table'
           /\ \A i \in DOMAIN table \ {id} : i \in DOMAIN table' /\ table'[i] = table[i]
           /\ (TruthyList(a.tags) /\ a.content = None /\ a.category = None) =>
                 table'[id] = [table[id] EXCEPT !.metadata =
                                  Json([Meta(table[id]) EXCEPT !.tags = Val(a.tags)])]
           /\ (TruthyStr(a.content) /\ a.tags = None /\ a.category = None) =>
                 table'[id] = [table[id] EXCEPT
                                  !.text = Val(a.content),
                                  !.embedding = Some(_get_embedding(Val(a.content)))]
           /\ (TruthyStr(a.content) /\ TruthyList(a.tags) /\ a.category = None) =>
                 /\ Meta(table'[id]).category = Meta(table[id]).category
                 /\ Meta(table'[id]).tags = Val(a.tags)
                 /\ table'[id].text = Val(a.content)
      ]_vars

\* Witness of C3: an update with tags alone returned True on a record that
\* has a category of its own.
C3_Witness ==
    /\ ret.op = "update_memory" /\ ret.val = TRUE
    /\ ret.args.tags = Some(<<"x">>)
    /\ ret.args.content = None /\ ret.args.category = None
    /\ ret.args.memory_id \in Present
    /\ Meta(table[ret.args.memory_id]).category = "Sports"
    /\ Meta(table[ret.args.memory_id]).tags = <<"x">>

\* C4: delete_memory of an id that is not present returns False and changes
\* no row; of an id that is present it returns True and removes that row
\* alone; a delete of an id that was deleted before returns False.
C4_DeleteAbsence ==
    [][ret'.op = "delete_memory" =>
        LET id == ret'.args.memory_id
        IN /\ id \notin DOMAIN table => ret'.val = FALSE /\ table' = table
           /\ id \in DOMAIN table =>
                 /\ ret'.val = TRUE
                 /\ DOMAIN table' = DOMAIN table \ {id}
                 /\ \A i \in DOMAIN table' : table'[i] = table[i]
           /\ id \in deleted => ret'.val = FALSE
      ]_vars

\* Witness of C4: the second delete of an id returned False, another record
\* being stored.
C4_Witness ==
    /\ ret.op = "delete_memory" /\ ret.val = FALSE
    /\ ret.args.memory_id \in deleted
    /\ Present # {}

\* C5: with one call at a time, update_memory of an id that is not present
\* returns False and changes nothing, so no record is created; of an id that
\* is present it returns True and the record stays.
C5_UpdateUnknown ==
    [][ret'.op = "update_memory" =>
        LET id == ret'.args.memory_id
        IN /\ id \notin DOMAIN table =>
                 /\ ret'.val = FALSE
                 /\ table' = table
                 /\ UNCHANGED <<nextId, pc, local, issued, deleted>>
           /\ id \in DOMAIN table => ret'.val = TRUE
           /\ DOMAIN table' = DOMAIN table
      ]_vars

\* Witness of C5: an update that supplied every field returned False for an
\* id that is not stored, beside a stored record.
C5_Witness ==
    /\ ret.op = "update_memory" /\ ret.val = FALSE
    /\ ret.args.memory_id \notin Present
    /\ TruthyStr(ret.args.content) /\ TruthyList(ret.args.tags)
    /\ Present # {}

\* C6: search_memories(query, k) returns min(k, number of rows) rows, in
\* non-increasing similarity order, each a stored row, none less similar than
\* a stored row left out; nothing when the store is empty.
C6_SearchTopK ==
    ret.op = "search_memories" =>
        LET r == ret.val
            qe == _get_embedding(ret.args.query)
            got == {r[n].id : n \in DOMAIN r}
        IN /\ Len(r) = Min(ret.args.k, Cardinality(Present))
           /\ Present = {} => r = <<>>
           /\ \A n \in DOMAIN r :
                 /\ r[n].id \in Present
                 /\ r[n].content = table[r[n].id].text
                 /\ r[n].metadata = Meta(table[r[n].id])
                 /\ r[n].similarity = Similarity(r[n].id, qe)
           /\ \A m, n \in DOMAIN r :
                 m < n => Val(r[m].similarity) >= Val(r[n].similarity)
           /\ \A n \in DOMAIN r : \A i \in Present \ got :
                 Val(r[n].similarity) >= Val(Similarity(i, qe))

\* C7: get_memory changes nothing; it returns the content and the metadata
\* of the row with that id exactly when the row is present, and None for an
\* id that was never assigned or was deleted.
C7_GetExact ==
    [][ret'.op = "get_memory" =>
        LET id == ret'.args.memory_id
        IN /\ UNCHANGED <<table, nextId, pc, local, issued, deleted>>
           /\ id \in DOMAIN table =>
                 ret'.val = Some([id |-> id, content |-> table[id].text,
                                  metadata |-> Meta(table[id])])
           /\ id \notin DOMAIN table => ret'.val = None
           /\ (id \in deleted \/ id >= nextId) => ret'.val = None
      ]_vars

\* Witness of C7: the get of an id whose record was deleted returned None.
C7_Witness ==
    /\ ret.op = "get_memory" /\ ret.val = None
    /\ ret.args.memory_id \in deleted

\* C8: the set of records grows only by the id add_memory returns and shrinks
\* only by the id of a delete_memory that returns True; update_memory keeps
\* it; an id whose delete returned True is absent in every later state, and
\* get_memory returns None for it, also after an update of that id that read
\* the row before the delete writes.
C8_NoResurrection ==
    [][/\ (DOMAIN table' \ DOMAIN table # {}) =>
             /\ ret'.op = "add_memory"
             /\ DOMAIN table' \ DOMAIN table = {ret'.val}
             /\ ret'.val \notin deleted
       /\ (DOMAIN table \ DOMAIN table' # {}) =>
             /\ ret'.op = "delete_memory" /\ ret'.val = TRUE
             /\ DOMAIN table \ DOMAIN table' = {ret'.args.memory_id}
       /\ \A id \in deleted' : id \notin DOMAIN table'
       /\ deleted \subseteq deleted'
       /\ (ret'.op = "get_memory" /\ ret'.args.memory_id \in deleted) => ret'.val = None
      ]_vars

\* Witness of C8: an update wrote and returned True for an id whose delete
\* had returned True after the update read the row, and the row is absent.
C8_Witness ==
    /\ ret.op = "update_memory" /\ ret.val = TRUE
    /\ ret.args.memory_id \in deleted
    /\ ret.args.memory_id \notin Present
    /\ Present # {}

\* C9: every stored row has an embedding, and it is the Embedder's output for
\* the text of the row, in every state the callers' statements can reach.
C9_EmbeddingConsistent ==
    \A i \in Present :
        /\ table[i].embedding # None
        /\ table[i].embedding = Some(_get_embedding(table[i].text))

\* Witness of C9: an update that changed the content of a row returned while
\* another caller, inside update_memory, holds a different content for it.
C9_Witness ==
    /\ ret.op = "update_memory" /\ ret.val = TRUE
    /\ TruthyStr(ret.args.content)
    /\ ret.args.memory_id \in Present
    /\ \E p \in Callers :
          /\ pc[p] = "update_write"
          /\ local[p].memory_id = ret.args.memory_id
          /\ TruthyStr(local[p].content)
          /\ local[p].content # ret.args.content

\* C10: an update_memory that returns True has applied every field that was
\* supplied, the empty list and the empty string included, and an omitted
\* field is as it was.
C10_SuppliedApplied ==
    [][(ret'.op = "update_memory" /\ ret'.val = TRUE) =>
        LET a == ret'.args
            id == a.memory_id
        IN /\ id \in DOMAIN table /\ id \in DOMAIN table'
           /\ Meta(table'[id]).tags =
                 (IF a.tags = None THEN Meta(table[id]).tags ELSE Val(a.tags))
           /\ Meta(table'[id]).category =
                 (IF a.category = None THEN Meta(table[id]).category
                  ELSE Val(a.category))
           /\ table'[id].text =
                 (IF a.content = None THEN table[id].text ELSE Val(a.content))
           /\ table'[id].embedding =
                 (IF a.content = None THEN table[id].embedding
                  ELSE Some(_get_embedding(Val(a.content))))
      ]_vars

\* C11: creation time is immutable: no step changes the timestamp column or
\* metadata.timestamp of a row that stays in the table, whichever fields an
\* update supplies and however the updates of several callers interleave.
C11_CreationTimeImmutable ==
    [][\A i \in DOMAIN table \cap DOMAIN table' :
          /\ table'[i].timestamp = table[i].timestamp
          /\ Meta(table'[i]).timestamp = Meta(table[i]).timestamp]_vars

\* An update that changed content has written row 1 while another caller is
\* between the read and the write of its own update of the same row.
C11_Witness ==
    /\ ret.op = "update_memory" /\ ret.val = TRUE
    /\ TruthyStr(ret.args.content)
    /\ ret.args.memory_id \in Present
    /\ table[ret.args.memory_id].text = Val(ret.args.content)
    /\ \E p \in Callers :
          pc[p] = "update_write" /\ local[p].memory_id = ret.args.memory_id

\* C12: no partial writes on failure: a step in which add_memory or
\* update_memory raises, at whatever stage, leaves the table as it was before
\* the call, so every later get_memory and search_memories reads that table.
C12_NoPartialWrites ==
    [][ret'.op = "raised" => table' = table]_vars

\* An update of content on a present row has raised after its UPDATE
\* statement was executed, and the row still has its old text.
C12_Witness ==
    /\ ret.op = "raised"
    /\ ret.args.call = "update_memory" /\ ret.args.stage = "commit"
    /\ ret.args.args.content = Some("b")
    /\ ret.args.args.memory_id \in Present
    /\ table[ret.args.args.memory_id].text = "a"

\* C13: scoped connection release: whenever no call is running, no
\* connection opened by a call of the store is still open.
C13_ConnectionsReleased ==
    (\A p \in Callers : pc[p] = "idle") => conns = 0

\* C14: deterministic tie-breaking in search: in the list search_memories
\* returns, records of equal similarity come in insertion order, the smaller
\* id first.
C14_TieOrder ==
    ret.op = "search_memories" =>
        \A m, n \in DOMAIN ret.val :
            m < n /\ ret.val[m].similarity = ret.val[n].similarity
                => ret.val[m].id < ret.val[n].id

\* C16: update reports success only when it applied: update_memory has
\* returned True only if the row it wrote exists, that is, its UPDATE
\* statement wrote a row.
C16_UpdateReportsApplied ==
    ret.op = "update_memory" /\ ret.val = TRUE => ret.args.memory_id \in Present

\* C17: no lost field under concurrent updates: the write of an update that
\* returns True leaves every field the update did not supply (content, tags,
\* category) at the value stored just before the write.
C17_NoLostField ==
    [][(/\ ret'.op = "update_memory" /\ ret'.val = TRUE
        /\ ret'.args.memory_id \in DOMAIN table \cap DOMAIN table')
       => LET id == ret'.args.memory_id
              a == ret'.args
          IN /\ a.content = None => table'[id].text = table[id].text
             /\ a.tags = None => Meta(table'[id]).tags = Meta(table[id]).tags
             /\ a.category = None =>
                   Meta(table'[id]).category = Meta(table[id]).category
      ]_vars

\* C18: exactly one winner among the deletes of an id: a delete_memory
\* returns True only for an id for which no delete_memory has returned True
\* before, whatever the other callers do between the deletes.
C18_OneDeleteWins ==
    [][ret'.op = "delete_memory" /\ ret'.val = TRUE =>
          /\ ret'.args.memory_id \notin deleted
          /\ ret'.args.memory_id \in DOMAIN table
          /\ deleted' = deleted \cup {ret'.args.memory_id}
      ]_vars

\* Two deletes of the one id that was ever stored: the first returned True,
\* this one returned False.
C18_Witness ==
    /\ ret.op = "delete_memory" /\ ret.val = FALSE
    /\ deleted = {ret.args.memory_id}
    /\ issued = <<ret.args.memory_id>>

\* C19: metadata shape: the metadata of every stored row has exactly the
\* keys tags, category and timestamp, its tags are a list and its category
\* is a non-empty string, after any sequence of add, update and delete.
C19_MetadataShape ==
    \A i \in Present :
        LET m == Meta(table[i])
        IN /\ DOMAIN m = {"tags", "category", "timestamp"}
           /\ m.tags \in Seq(STRING)
           /\ m.category \in STRING
           /\ m.category # ""

\* An update that supplied the empty list as tags and the empty string as
\* category has returned True, and the row is stored.
C19_Witness ==
    /\ ret.op = "update_memory" /\ ret.val = TRUE
    /\ ret.args.tags = Some(<<>>) /\ ret.args.category = Some("")
    /\ ret.args.memory_id \in Present

\* C15: a missing connection string is fatal with no partial initialization:
\* constructed with no db_url argument and no DATABASE_URL, __init__ never
\* reaches _init_db and never yields an instance, no statement of _init_db is
\* executed, and once it is past the test of self.db_url it has raised.
C15_MissingUrlFatal ==
    ctor.db_url = None /\ ctor.environ = None =>
        /\ ctor.pc \in {"embedding_model", "llm_controller", "db_url", "raised"}
        /\ ctor.pc = "raised" => ctor.error # None
        /\ ddl = <<>>
        /\ conns = 0
        /\ table = <<>> /\ ret = NoRet

\* The constructor has raised ValueError for no argument and no environment
\* variable.
C15_Witness ==
    /\ ctor.db_url = None /\ ctor.environ = None
    /\ ctor.pc = "raised" /\ ctor.error = Some("ValueError")
    /\ ctor.self_db_url = None

\* C20: a tool failure is recovered inside the client loop: the step in
\* which session.call_tool raised for a tool call records the error as its
\* result, appends the assistant message and the tool message with that
\* tool_call_id, and goes on in process_query, which does not raise.
C20_ToolFailureRecovered ==
    [][(/\ cpc = "tools"
        /\ result' # result
        /\ result'.type = "dict")
       => /\ result'.tool_call_id = Head(todo).id
          /\ Len(messages') = Len(messages) + 2
          /\ messages'[Len(messages) + 1].role = "assistant"
          /\ messages'[Len(messages) + 1].tool_call_id = Head(todo).id
          /\ messages'[Len(messages) + 2].role = "tool"
          /\ messages'[Len(messages) + 2].tool_call_id = Head(todo).id
          /\ cpc' \in {"tools", "request"}
          /\ cret'.op # "raised"
      ]_vars

\* C21: client session cleanup on every exit path: when main has finished,
\* normally or with an exception, every context initialize_session entered
\* has been exited.
C21_ContextsExited ==
    cpc = "exited" => entered = {}

====
